---- MODULE Spec2Model ----
(***************************************************************************)
(* Agent orchestration engine of ai-agent-cli: the REPL of main(), the     *)
(* turn-based agentLoop, the tool dispatcher with its leaf tools, the      *)
(* Task/subagent runner, the three protocol adapters and the Todo and      *)
(* Reminder singletons.                                                    *)
(*                                                                         *)
(* Strings are sequences of tokens.  The source's Chinese literals are     *)
(* written in pinyin: "cuowu:" is the literal the loop tests with          *)
(* startsWith (U+9519 U+8BEF ':'), "gongju-zhixing" "cuowu:" is the        *)
(* dispatcher's catch prefix (the same two characters preceded by four     *)
(* others), "gongju-zhixing" "shibai:" is the loop's catch prefix.         *)
(***************************************************************************)
EXTENDS Integers, Sequences, FiniteSets, TLC

(***************************************************************************)
(* Bounds of the model.                                                    *)
(***************************************************************************)
\* turn budget of the top-level loop (the source's default is 20; scaled down)
MaxTurns == 2
\* turn budget of a subagent loop (the source passes 10; scaled down)
SubagentMaxTurns == 2
\* number of user turns the REPL accepts
MaxUserTurns == 2
\* deepest nesting of loops the model follows (1 = main loop only)
MaxDepth == 3
\* responses the provider gives in one session; later calls stay pending
MaxModelCalls == 2
\* longest path argument, in segments, given to safePath and the file tools
MaxSegs == 3
\* longest output given to truncateOutput, and the largest bound
MaxOutputLen == 3
\* longest todo list, composed item by item, given to TodoManager.update
\* recordToolCalls calls followed per ReminderManager between two resets
MaxRecorded == 11

\* tool calls followed through one dispatcher
MaxDispatches == 4

MaxItems == 2

(***************************************************************************)
(* Strings.                                                                *)
(***************************************************************************)
StartsWith(s, p) ==
    /\ Len(p) <= Len(s)
    /\ SubSeq(s, 1, Len(p)) = p

CuoWu == <<"cuowu:">>
ErrorEn == <<"Error:">>

(***************************************************************************)
(* Canonical message model.                                                *)
(***************************************************************************)
TextBlock(t) == [type |-> "text", text |-> t]
ToolUseBlock(id, name, input) ==
    [type |-> "tool_use", id |-> id, name |-> name, input |-> input]
ToolResultBlock(id, content, isError) ==
    [type |-> "tool_result", tool_use_id |-> id, content |-> content,
     is_error |-> isError]
Message(role, content) == [role |-> role, content |-> content]

RECURSIVE SelectSeq2(_, _)
\* the blocks of a content array that have the given type, in order
SelectSeq2(content, ty) ==
    IF content = <<>> THEN <<>>
    ELSE (IF Head(content).type = ty THEN <<Head(content)>> ELSE <<>>)
         \o SelectSeq2(Tail(content), ty)

ToolUses(msg) == SelectSeq2(msg.content, "tool_use")
ToolResults(msg) == SelectSeq2(msg.content, "tool_result")
Texts(msg) == SelectSeq2(msg.content, "text")

(***************************************************************************)
(* Agent types and tool catalog.                                           *)
(***************************************************************************)
BASE_TOOLS == {"bash", "read_file", "write_file", "edit_file", "Glob", "Grep",
               "AskUserQuestion", "TodoWrite", "Skill", "EnterPlanMode",
               "ExitPlanMode", "WebFetch", "WebSearch"}
ALL_TOOLS == BASE_TOOLS \cup {"Task"}

\* AGENT_TYPES[t].tools; the code agent has the wildcard '*', written here as
\* the set of all tool names
AGENT_TYPES(agentType) ==
    IF agentType = "code" THEN ALL_TOOLS
    ELSE {"bash", "read_file", "Glob", "Grep"}

\* the tool definitions offered to a subagent of the given type
getToolsForAgentType(agentType) ==
    IF agentType = "code" THEN BASE_TOOLS
    ELSE {t \in BASE_TOOLS : t \in AGENT_TYPES(agentType)}

(***************************************************************************)
(* Todo manager (module singleton).                                        *)
(***************************************************************************)
MAX_TODO_ITEMS == 20

TodoItem(id, content, status, activeForm) ==
    [id |-> id, content |-> content, status |-> status,
     activeForm |-> activeForm]

\* String.prototype.trim on the strings the model uses
Trim(s) == IF s = " " THEN "" ELSE s

RECURSIVE CountStatus(_, _)
CountStatus(items, st) ==
    IF items = <<>> THEN 0
    ELSE (IF Head(items).status = st THEN 1 ELSE 0)
         + CountStatus(Tail(items), st)

\* Math.round((completed / total) * 100)
Percent(completed, total) ==
    IF total > 0 THEN (200 * completed + total) \div (2 * total) ELSE 0

\* TodoManager.render
Render(todos) ==
    IF Len(todos) = 0 THEN <<"renwu-liebiao-wei-kong">>
    ELSE [i \in 1..Len(todos) |-> todos[i].status]
         \o <<"jindu:", ToString(CountStatus(todos, "completed")),
               ToString(Len(todos)),
               ToString(Percent(CountStatus(todos, "completed"), Len(todos)))>>

\* index of the first item the validation loop of update rejects, 0 if none
FirstInvalid(items) ==
    LET bad(i) ==
            \/ items[i].status \notin {"pending", "in_progress", "completed"}
            \/ Trim(items[i].content) = ""
            \/ Trim(items[i].activeForm) = ""
            \/ /\ items[i].id # ""
               /\ \E j \in 1..(i - 1) : items[j].id = items[i].id
        S == {i \in 1..Len(items) : bad(i)}
    IN IF S = {} THEN 0 ELSE CHOOSE i \in S : \A j \in S : i <= j

\* the id update stores for the item at position index
StoredId(item, index) ==
    IF item.id # "" THEN item.id ELSE "todo-" \o ToString(index)

\* an update that never counts the in_progress items
TooManyInProgressNever(items) == FALSE

\* the in_progress check of update
TooManyInProgress(items) == CountStatus(items, "in_progress") > 1

\* an update that appends the accepted items to the stored list
TodoUpdateMerging(todos, items) ==
    IF Len(items) > MAX_TODO_ITEMS \/ FirstInvalid(items) # 0
       \/ TooManyInProgress(items)
    THEN [todos |-> todos, result |-> CuoWu]
    ELSE [todos |-> todos \o items, result |-> Render(todos \o items)]

\* TodoManager.update: the new list and the returned string
TodoUpdate(todos, items) ==
    IF Len(items) > MAX_TODO_ITEMS
    THEN [todos |-> todos, result |-> CuoWu \o <<"zuiduo-yunxu", ToString(Len(items))>>]
    ELSE IF FirstInvalid(items) # 0
    THEN [todos |-> todos,
          result |-> CuoWu \o <<"renwu", ToString(FirstInvalid(items)), "wuxiao">>]
    ELSE IF TooManyInProgress(items)
    THEN [todos |-> todos,
          result |-> CuoWu \o <<"zhi-neng-you-1-ge-in_progress",
                                ToString(CountStatus(items, "in_progress"))>>]
    ELSE LET new == [i \in 1..Len(items) |->
                        TodoItem(StoredId(items[i], i), Trim(items[i].content),
                                 items[i].status, Trim(items[i].activeForm))]
         IN [todos |-> new, result |-> Render(new)]

(***************************************************************************)
(* Reminder manager (module singleton).                                    *)
(***************************************************************************)
todoNagThreshold == 10

\* a counter that a TodoWrite round does not reset
recordToolCallsCounting(rounds, toolNames) == rounds + 1

\* ReminderManager.recordToolCalls: the new roundsWithoutTodo
recordToolCalls(rounds, toolNames) ==
    IF \E i \in 1..Len(toolNames) : toolNames[i] = "TodoWrite"
    THEN 0
    ELSE rounds + 1

\* ReminderManager.getReminders, already sorted by priority
\* (suspiciousFileDetected and hasContext are never set by the program)
getReminders(rounds, isFirst) ==
    (IF isFirst THEN <<"initial">> ELSE <<>>)
    \o (IF rounds >= todoNagThreshold THEN <<"nag">> ELSE <<>>)

(***************************************************************************)
(* Protocol adapters.  A provider response is                              *)
(*   [text, calls, stop]: text is <<>> when the response has no text, calls *)
(*   is the sequence of requested calls [id, name, input] (Gemini          *)
(*   responses carry no id), stop is the provider's own stop vocabulary.   *)
(***************************************************************************)
Providers == {"anthropic", "openai", "gemini"}

\* the provider's native word for a kind of stop
NativeStop(adapter, kind) ==
    IF adapter = "anthropic"
    THEN (IF kind = "tool" THEN "tool_use"
          ELSE IF kind = "limit" THEN "max_tokens" ELSE "end_turn")
    ELSE IF adapter = "openai"
    THEN (IF kind = "tool" THEN "tool_calls"
          ELSE IF kind = "limit" THEN "length" ELSE "stop")
    ELSE (IF kind = "limit" THEN "MAX_TOKENS" ELSE "STOP")

\* the pseudo id the Gemini adapter fabricates from the clock and a random
\* number: the n-th fabricated id of the run
GeminiId(n) == "gemini_" \o ToString(n)

ToolCall(id, name, input) == [id |-> id, name |-> name, input |-> input]

\* extractTextAndToolCalls; fresh is the number of ids fabricated so far
extractTextAndToolCalls(adapter, response, fresh) ==
    [textBlocks |-> IF response.text = <<>> THEN <<>> ELSE <<response.text>>,
     toolCalls |->
        [i \in 1..Len(response.calls) |->
            ToolCall(IF adapter = "gemini" THEN GeminiId(fresh + i)
                     ELSE response.calls[i].id,
                     response.calls[i].name, response.calls[i].input)],
     stopReason |-> IF adapter = "gemini" THEN "stop" ELSE response.stop]

\* formatAssistantMessage; fresh is the number of ids fabricated so far
formatAssistantMessage(adapter, response, fresh) ==
    Message("assistant",
        (IF response.text = <<>> THEN <<>> ELSE <<TextBlock(response.text)>>)
        \o [i \in 1..Len(response.calls) |->
               ToolUseBlock(IF adapter = "gemini" THEN GeminiId(fresh + i)
                            ELSE response.calls[i].id,
                            response.calls[i].name, response.calls[i].input)])

\* formatToolResults (the same in the three adapters)
formatToolResults(results) ==
    Message("user",
        [i \in 1..Len(results) |->
            ToolResultBlock(results[i].tool_use_id, results[i].content,
                            results[i].is_error)])

\* number of ids the adapter fabricates while decoding one response
\* (once in extractTextAndToolCalls, once more in formatAssistantMessage)
FabricatedIds(adapter, response) ==
    IF adapter = "gemini" THEN 2 * Len(response.calls) ELSE 0

(***************************************************************************)
(* Security gate and leaf tools.  A leaf tool either returns a string or   *)
(* throws; the set of outcomes is what the environment (file system,       *)
(* subprocess, network) can make of the call.                              *)
(***************************************************************************)
Ret(str) == [kind |-> "ret", str |-> str]
Throw(msg) == [kind |-> "throw", msg |-> msg]

\* a string literal of the source as the sequence of its characters
Chars(s) ==
    CASE s = "in.txt" -> <<"i", "n", ".", "t", "x", "t">>
      [] s = "../out" -> <<".", ".", "/", "o", "u", "t">>
      [] s = "src" -> <<"s", "r", "c">>
      [] s = "touch f" -> <<"t", "o", "u", "c", "h", " ", "f">>
      [] s = "ls" -> <<"l", "s">>
      [] OTHER -> <<>>

\* the work directory the tools are created with
WorkDir == <<"/", "w">>

RECURSIVE Split(_, _)
\* String.prototype.split on a one-character separator
Split(s, sep) ==
    IF \A i \in 1..Len(s) : s[i] # sep THEN <<s>>
    ELSE LET i == CHOOSE k \in 1..Len(s) :
                      s[k] = sep /\ \A j \in 1..(k - 1) : s[j] # sep
         IN <<SubSeq(s, 1, i - 1)>> \o Split(SubSeq(s, i + 1, Len(s)), sep)

RECURSIVE JoinWith(_, _)
\* Array.prototype.join with a one-character separator
JoinWith(parts, sep) ==
    IF parts = <<>> THEN <<>>
    ELSE IF Len(parts) = 1 THEN parts[1]
    ELSE parts[1] \o <<sep>> \o JoinWith(Tail(parts), sep)

RECURSIVE normalizeArray(_, _)
\* the segments of an absolute path once "" and "." are dropped and ".."
\* has removed the segment before it (nothing above the root)
normalizeArray(segs, acc) ==
    IF segs = <<>> THEN acc
    ELSE normalizeArray(Tail(segs),
            IF Head(segs) = <<>> \/ Head(segs) = <<".">> THEN acc
            ELSE IF Head(segs) = <<".", ".">>
            THEN (IF acc = <<>> THEN acc ELSE SubSeq(acc, 1, Len(acc) - 1))
            ELSE Append(acc, Head(segs)))

IsAbsolute(p) == p # <<>> /\ p[1] = "/"

\* path.resolve(workdir, filePath) for an absolute workdir
resolve(workdir, filePath) ==
    LET joined == IF IsAbsolute(filePath) THEN filePath
                  ELSE workdir \o <<"/">> \o filePath
    IN <<"/">> \o JoinWith(normalizeArray(Split(joined, "/"), <<>>), "/")

\* path.normalize of an absolute path: a trailing separator is kept
normalize(p) ==
    LET segs == normalizeArray(Split(p, "/"), <<>>)
        body == <<"/">> \o JoinWith(segs, "/")
    IN IF segs # <<>> /\ p[Len(p)] = "/" THEN body \o <<"/">> ELSE body

\* safePath: the resolved path, or the path-escape error
safePath(workdir, filePath) ==
    LET resolved == resolve(workdir, filePath)
        normalizedWorkdir == normalize(workdir)
        normalizedResolved == normalize(resolved)
    IN IF ~StartsWith(normalizedResolved, normalizedWorkdir)
       THEN Throw(<<"lujing-yuejie">> \o filePath)
       ELSE Ret(resolved)

(***************************************************************************)
(* Command checks.  A regular expression is a sequence of atoms; the i     *)
(* flag is modelled by comparing lower-cased characters.                   *)
(***************************************************************************)
UpperCase == <<"A", "B", "C", "D", "E", "F", "G", "H", "I", "J", "K", "L", "M", "N", "O", "P", "Q", "R", "S", "T", "U", "V", "W", "X", "Y", "Z">>
LowerCase == <<"a", "b", "c", "d", "e", "f", "g", "h", "i", "j", "k", "l", "m", "n", "o", "p", "q", "r", "s", "t", "u", "v", "w", "x", "y", "z">>

\* String.prototype.toLowerCase on one character
ToLower(c) ==
    IF \E i \in 1..Len(UpperCase) : UpperCase[i] = c
    THEN LowerCase[CHOOSE i \in 1..Len(UpperCase) : UpperCase[i] = c]
    ELSE c

\* the characters \s matches
WhiteSpace == {" ", "\t", "\n"}

Lit(cs) == [i \in 1..Len(cs) |-> [k |-> "lit", c |-> cs[i]]]
WsPlus == <<[k |-> "ws+"]>>
WsStar == <<[k |-> "ws*"]>>
AnyStar == <<[k |-> "any*"]>>
OneOf(cs) == <<[k |-> "set", cs |-> cs]>>
Opt(cs) == <<[k |-> "opt", s |-> cs]>>

\* the source's DANGEROUS_PATTERNS.  The sixth entry, /:(){ :|:& };:/i, is
\* an alternation: "()" is an empty group and "{ :" is no quantifier, so it
\* matches ":{ :" or ":& };:"
DANGEROUS_PATTERNS ==
    << Lit(<<"r", "m">>) \o WsPlus \o Lit(<<"-", "r", "f">>) \o WsPlus
           \o OneOf({"/", "~"}),
       Lit(<<"r", "m">>) \o WsPlus \o Lit(<<"-", "r", "f">>) \o WsPlus
           \o Lit(<<"*">>),
       Lit(<<">">>) \o WsStar \o Lit(<<"/", "d", "e", "v", "/", "s", "d">>)
           \o OneOf({LowerCase[i] : i \in 1..Len(LowerCase)}),
       Lit(<<"m", "k", "f", "s", ".">>),
       Lit(<<"d", "d">>) \o WsPlus \o Lit(<<"i", "f", "=">>),
       Lit(<<":", "{", " ", ":">>),
       Lit(<<":", "&", " ", "}", ";", ":">>),
       Lit(<<"c", "h", "m", "o", "d">>) \o WsPlus \o Lit(<<"-", "r">>) \o WsPlus
           \o Lit(<<"7", "7", "7">>) \o WsPlus \o Lit(<<"/">>),
       Lit(<<"c", "u", "r", "l">>) \o AnyStar \o Lit(<<"|">>) \o WsStar
           \o Opt(<<"b", "a">>) \o Lit(<<"s", "h">>),
       Lit(<<"w", "g", "e", "t">>) \o AnyStar \o Lit(<<"|">>) \o WsStar
           \o Opt(<<"b", "a">>) \o Lit(<<"s", "h">>) >>

RECURSIVE MatchFrom(_, _, _, _)
\* whether the atoms of pat from the i-th on match s from position j on
MatchFrom(pat, i, s, j) ==
    IF i > Len(pat) THEN TRUE
    ELSE LET a == pat[i]
             rest == Len(s) - j + 1
         IN CASE a.k = "lit" ->
                    /\ j <= Len(s)
                    /\ ToLower(s[j]) = ToLower(a.c)
                    /\ MatchFrom(pat, i + 1, s, j + 1)
              [] a.k = "set" ->
                    /\ j <= Len(s)
                    /\ ToLower(s[j]) \in a.cs
                    /\ MatchFrom(pat, i + 1, s, j + 1)
              [] a.k = "ws+" ->
                    \E n \in 1..rest :
                        /\ \A m \in j..(j + n - 1) : s[m] \in WhiteSpace
                        /\ MatchFrom(pat, i + 1, s, j + n)
              [] a.k = "ws*" ->
                    \E n \in 0..rest :
                        /\ \A m \in j..(j + n - 1) : s[m] \in WhiteSpace
                        /\ MatchFrom(pat, i + 1, s, j + n)
              [] a.k = "any*" ->
                    \E n \in 0..rest :
                        /\ \A m \in j..(j + n - 1) : s[m] # "\n"
                        /\ MatchFrom(pat, i + 1, s, j + n)
              [] a.k = "opt" ->
                    \/ MatchFrom(pat, i + 1, s, j)
                    \/ /\ j + Len(a.s) - 1 <= Len(s)
                       /\ \A m \in 1..Len(a.s) :
                             ToLower(s[j + m - 1]) = ToLower(a.s[m])
                       /\ MatchFrom(pat, i + 1, s, j + Len(a.s))

\* RegExp.prototype.test: the pattern matches somewhere in s
RegExpTest(pat, s) == \E j \in 1..(Len(s) + 1) : MatchFrom(pat, 1, s, j)

\* validateBashCommand passes (no DANGEROUS_PATTERNS entry matches)
validateBashCommand(command) ==
    \A p \in 1..Len(DANGEROUS_PATTERNS) :
        ~RegExpTest(DANGEROUS_PATTERNS[p], command)

\* the source's READ_ONLY_COMMANDS
READ_ONLY_COMMANDS ==
    {<<"l", "s">>,
     <<"c", "a", "t">>,
     <<"h", "e", "a", "d">>,
     <<"t", "a", "i", "l">>,
     <<"l", "e", "s", "s">>,
     <<"m", "o", "r", "e">>,
     <<"g", "r", "e", "p">>,
     <<"f", "i", "n", "d">>,
     <<"w", "c">>,
     <<"d", "i", "f", "f">>,
     <<"f", "i", "l", "e">>,
     <<"s", "t", "a", "t">>,
     <<"d", "u">>,
     <<"d", "f">>,
     <<"p", "w", "d">>,
     <<"e", "c", "h", "o">>,
     <<"w", "h", "i", "c", "h">>,
     <<"w", "h", "e", "r", "e", "i", "s">>,
     <<"t", "y", "p", "e">>,
     <<"g", "i", "t", " ", "l", "o", "g">>,
     <<"g", "i", "t", " ", "d", "i", "f", "f">>,
     <<"g", "i", "t", " ", "s", "t", "a", "t", "u", "s">>,
     <<"g", "i", "t", " ", "s", "h", "o", "w">>,
     <<"g", "i", "t", " ", "b", "r", "a", "n", "c", "h">>,
     <<"g", "i", "t", " ", "r", "e", "m", "o", "t", "e">>,
     <<"t", "r", "e", "e">>,
     <<"e", "n", "v">>,
     <<"p", "r", "i", "n", "t", "e", "n", "v">>}

RECURSIVE TrimChars(_)
\* String.prototype.trim
TrimChars(s) ==
    IF s = <<>> THEN s
    ELSE IF Head(s) \in WhiteSpace THEN TrimChars(Tail(s))
    ELSE IF s[Len(s)] \in WhiteSpace THEN TrimChars(SubSeq(s, 1, Len(s) - 1))
    ELSE s

\* command.trim().split(/\s+/)[0]
FirstWord(command) ==
    LET t == TrimChars(command)
        ends == {i \in 1..Len(t) : t[i] \in WhiteSpace}
    IN IF ends = {} THEN t
       ELSE SubSeq(t, 1, (CHOOSE i \in ends : \A j \in ends : i <= j) - 1)

\* validateReadOnlyCommand passes
validateReadOnlyCommand(command) ==
    \E allowed \in READ_ONLY_COMMANDS :
        IF \E i \in 1..Len(allowed) : allowed[i] = " "
        THEN StartsWith(TrimChars(command), allowed)
        ELSE FirstWord(command) = allowed

(***************************************************************************)
(* Output truncation.                                                      *)
(***************************************************************************)
RECURSIVE Digits(_)
\* the decimal digits of a natural number
Digits(n) ==
    IF n < 10 THEN <<ToString(n)>>
    ELSE Digits(n \div 10) \o <<ToString(n % 10)>>

\* the notice truncateOutput appends, one element per character
TruncationNotice(remaining) ==
    <<"\n", "\n", ".", ".", ".", " ", "(",
      "shu", "chu", "yi", "jie", "duan", ",", "sheng", "lve", " ">>
    \o Digits(remaining)
    \o <<" ", "zi", "fu", ")">>

\* truncateOutput(output, maxLength) for maxLength >= 0
truncateOutput(output, maxLength) ==
    IF Len(output) <= maxLength THEN output
    ELSE SubSeq(output, 1, maxLength)
         \o TruncationNotice(Len(output) - maxLength)

MAX_OUTPUT_SIZE == 50 * 1024 * 1024

\* what execa resolves to under reject: false; the exit code of a process
\* ended by the timeout is undefined
ExecaResult(all, exitCode, timedOut) ==
    [all |-> all, exitCode |-> exitCode, timedOut |-> timedOut]

ExecaResults ==
    {ExecaResult(<<"stdout">>, "0", FALSE),
     ExecaResult(<<"stdout">>, "1", FALSE),
     ExecaResult(<<>>, "undefined", TRUE)}

\* whether runBash gets as far as starting the subprocess
ReachesExeca(command, readOnly) ==
    /\ validateBashCommand(command)
    /\ readOnly => validateReadOnlyCommand(command)

\* runBash when the subprocess, if started, ends with result
runBashWith(command, readOnly, result) ==
    IF ~validateBashCommand(command)
    THEN Ret(CuoWu \o <<"weixian-mingling-bei-zuzhi">> \o command)
    ELSE IF readOnly /\ ~validateReadOnlyCommand(command)
    THEN Ret(CuoWu \o <<"zhidu-moshi-xia-bu-yunxu-zhixing">> \o command)
    ELSE IF result.all = <<>>
    THEN Ret(<<"mingling-zhixing-chenggong-wu-shuchu", "tuichuma:",
               result.exitCode>>)
    ELSE IF result.exitCode # "0"
    THEN Ret(truncateOutput(result.all, MAX_OUTPUT_SIZE)
             \o <<"tuichuma:", result.exitCode, "mingling-zhixing-shibai">>)
    ELSE Ret(truncateOutput(result.all, MAX_OUTPUT_SIZE))

runBash(command, readOnly) ==
    {runBashWith(command, readOnly, r) : r \in ExecaResults}

runRead(filePath) ==
    IF safePath(WorkDir, filePath).kind = "throw"
    THEN {Ret(CuoWu \o safePath(WorkDir, filePath).msg)}
    ELSE {Ret(<<"1->", "line">>),
          Ret(CuoWu \o <<"wenjian-bu-cunzai">> \o filePath)}

runWrite(filePath) ==
    IF safePath(WorkDir, filePath).kind = "throw"
    THEN {Ret(CuoWu \o safePath(WorkDir, filePath).msg)}
    ELSE {Ret(<<"chenggong-xieru-wenjian">> \o filePath),
          Ret(CuoWu \o <<"EACCES">>)}

runEdit(filePath) ==
    IF safePath(WorkDir, filePath).kind = "throw"
    THEN {Ret(CuoWu \o safePath(WorkDir, filePath).msg)}
    ELSE {Ret(<<"chenggong-bianji-wenjian">> \o filePath),
          Ret(CuoWu \o <<"wenjian-bu-cunzai">> \o filePath),
          Ret(CuoWu \o <<"zai-wenjian-zhong-wei-zhaodao-yao-tihuan-de-wenben">>)}

\* the directory runGlob and runGrep search: searchPath is <<>> when absent
SearchCwd(searchPath) ==
    IF searchPath # <<>> THEN resolve(WorkDir, searchPath) ELSE WorkDir

runGlob(searchPath) ==
    {Ret(<<"zhaodao", "1", "ge-pipei-wenjian">>),
     Ret(<<"Glob", "cuowu:", "EACCES">>)}

runGrep(searchPath) ==
    {Ret(<<"zhaodao", "1", "ge-baohan-pipei-de-wenjian">>),
     Ret(<<"Grep", "cuowu:", "EACCES">>)}

\* the paths a filesystem tool hands to the file system
FsAccess(toolName, path) ==
    IF toolName \in {"read_file", "write_file", "edit_file"}
    THEN (IF safePath(WorkDir, path).kind = "ret"
          THEN {safePath(WorkDir, path).str} ELSE {})
    ELSE IF toolName \in {"Glob", "Grep"} THEN {SearchCwd(path)}
    ELSE {}

runWebFetch(url) ==
    {Ret(<<"wangye-neirong", url>>),
     Ret(CuoWu \o <<"wangluo-qingqiu-shibai">>)}

\* runSkillLegacy: skillName.trim() is evaluated outside any try block
runSkillLegacy(skillName) ==
    IF skillName = "undefined" THEN {Throw("TypeError")}
    ELSE IF skillName = "known" THEN {Ret(<<"<skill-loaded>", skillName>>)}
    ELSE {Ret(CuoWu \o <<"weizhi-jineng", skillName>>)}

(***************************************************************************)
(* Tool dispatcher: createExecuteTool(config)(toolName, input) for the     *)
(* tools that neither touch the Todo manager nor start a subagent.         *)
(***************************************************************************)
\* the catch block of the dispatcher
DispatcherCatch(outcome) ==
    IF outcome.kind = "throw"
    THEN <<"gongju-zhixing", "cuowu:", outcome.msg>>
    ELSE outcome.str

UnknownTool(toolName) == CuoWu \o <<"weizhi-gongju", toolName>>
TaskNeedsContext == CuoWu \o <<"Task", "gongju-xuyao-wanzheng-de-daili-shangxiawen">>

LeafTools == {"bash", "read_file", "write_file", "edit_file", "Glob", "Grep",
              "WebFetch", "Skill"}

\* the input object a tool call of the model carries: the argument the
\* dispatcher reads for that tool, as characters where the tool inspects them
InputOf(call) ==
    CASE call.name = "bash" -> [command |-> Chars(call.input)]
      [] call.name \in {"read_file", "write_file", "edit_file", "Glob", "Grep"} ->
             [path |-> Chars(call.input)]
      [] call.name = "WebFetch" -> [url |-> call.input]
      [] call.name = "Skill" -> [skill |-> call.input]
      [] OTHER -> [value |-> call.input]

\* a dispatcher that never asks for the read-only check
BashReadOnlyNever(agentType) == FALSE

\* the bash case of the dispatcher: explore agents run in read-only mode
BashReadOnly(agentType) == agentType = "explore"

\* the strings a dispatch of a leaf tool or of an unknown name can return
executeTool(toolName, input, agentType) ==
    IF toolName \notin LeafTools \cup {"TodoWrite", "Task"}
    THEN {UnknownTool(toolName)}
    ELSE {DispatcherCatch(o) : o \in
            CASE toolName = "bash" ->
                     runBash(input.command, BashReadOnly(agentType))
              [] toolName = "read_file" -> runRead(input.path)
              [] toolName = "write_file" -> runWrite(input.path)
              [] toolName = "edit_file" -> runEdit(input.path)
              [] toolName = "Glob" -> runGlob(input.path)
              [] toolName = "Grep" -> runGrep(input.path)
              [] toolName = "WebFetch" -> runWebFetch(input.url)
              [] toolName = "Skill" -> runSkillLegacy(input.skill)
              [] OTHER -> {}}

(***************************************************************************)
(* Plan mode manager (module singleton) and the dispatcher with it.        *)
(***************************************************************************)
\* PlanModeManager.state (null or active) and whether the plan file is on disk
PlanModeState(isActive, planFile) ==
    [isActive |-> isActive, planFile |-> planFile]

\* the PlanModeManager after construction, no plan file written yet
NoPlanMode == PlanModeState(FALSE, FALSE)

\* '.ai-agent-plan.md', joined to the working directory by enterPlanMode
PlanFileName == <<".", "a", "i", "-", "a", "g", "e", "n", "t", "-", "p", "l",
                  "a", "n", ".", "m", "d">>

PlanFilePath == resolve(WorkDir, PlanFileName)

\* PlanModeManager.enterPlanMode; writeOk is whether fs.writeFileSync returns
enterPlanMode(pm, writeOk) ==
    IF pm.isActive
    THEN [planMode |-> pm,
          outcome |-> Ret(CuoWu \o <<"yijing-chuyu-guihua-moshi-zhong">>)]
    ELSE IF writeOk
    THEN [planMode |-> PlanModeState(TRUE, TRUE),
          outcome |-> Ret(<<"yi-jinru-guihua-moshi">> \o PlanFilePath)]
    ELSE [planMode |-> PlanModeState(TRUE, pm.planFile),
          outcome |-> Throw("EACCES")]

\* PlanModeManager.exitPlanMode; readOk is whether fs.readFileSync returns
exitPlanMode(pm, readOk) ==
    IF ~pm.isActive
    THEN [planMode |-> pm,
          result |-> [success |-> FALSE, plan |-> <<>>,
                      error |-> CuoWu \o <<"dangqian-bu-zai-guihua-moshi-zhong">>]]
    ELSE IF ~pm.planFile
    THEN [planMode |-> pm,
          result |-> [success |-> FALSE, plan |-> <<>>,
                      error |-> CuoWu \o <<"jihua-wenjian-bu-cunzai">>]]
    ELSE IF ~readOk
    THEN [planMode |-> pm,
          result |-> [success |-> FALSE, plan |-> <<>>,
                      error |-> CuoWu \o <<"wufa-duqu-jihua-wenjian", "EACCES">>]]
    ELSE [planMode |-> PlanModeState(FALSE, pm.planFile),
          result |-> [success |-> TRUE,
                      plan |-> <<"guihua-wancheng", "plan-content",
                                 "qing-shenyue-shangshu-jihua">>,
                      error |-> <<>>]]

\* runEnterPlanMode
runEnterPlanMode(pm, writeOk) == enterPlanMode(pm, writeOk)

\* runExitPlanMode: the plan, or the error of a failed exit
runExitPlanMode(pm, readOk) ==
    LET r == exitPlanMode(pm, readOk)
    IN [planMode |-> r.planMode,
        outcome |-> Ret(IF ~r.result.success THEN r.result.error
                        ELSE r.result.plan)]

\* what one dispatch does: the manager and plan file afterwards, the string
\* returned and the files changed
Dispatched(pm, result, modified) ==
    [planMode |-> pm, result |-> result, modified |-> modified]

\* the EnterPlanMode case of the dispatcher
dispatchEnterPlanMode(pm) ==
    {Dispatched(runEnterPlanMode(pm, w).planMode,
                DispatcherCatch(runEnterPlanMode(pm, w).outcome),
                IF ~pm.isActive /\ w THEN {PlanFilePath} ELSE {}) :
       w \in BOOLEAN}

\* the ExitPlanMode case of the dispatcher
dispatchExitPlanMode(pm) ==
    {Dispatched(runExitPlanMode(pm, r).planMode,
                DispatcherCatch(runExitPlanMode(pm, r).outcome), {}) :
       r \in BOOLEAN}

\* the read_file, write_file and edit_file cases of the dispatcher
dispatchFileTool(toolName, input, agentType, pm) ==
    {LET done == toolName \in {"write_file", "edit_file"}
                 /\ ~StartsWith(r, CuoWu)
     IN Dispatched(IF done /\ PlanFilePath \in FsAccess(toolName, input.path)
                   THEN PlanModeState(pm.isActive, TRUE) ELSE pm,
                   r,
                   IF done THEN FsAccess(toolName, input.path) ELSE {}) :
       r \in executeTool(toolName, input, agentType)}

\* the files a shell command removes when it runs to the end
BashRemoves(command) ==
    IF command = <<"r", "m", " ">> \o PlanFileName THEN {PlanFilePath} ELSE {}

\* the files a shell command creates or touches when it runs to the end
BashCreates(command) ==
    IF command = Chars("touch f") THEN {resolve(WorkDir, <<"f">>)} ELSE {}

\* the bash case of the dispatcher
dispatchBash(input, agentType, pm) ==
    {LET ran == /\ ReachesExeca(input.command, BashReadOnly(agentType))
                /\ r.exitCode = "0"
     IN Dispatched(IF ran /\ PlanFilePath \in BashRemoves(input.command)
                   THEN PlanModeState(pm.isActive, FALSE) ELSE pm,
                   DispatcherCatch(runBashWith(input.command,
                                               BashReadOnly(agentType), r)),
                   IF ran THEN BashRemoves(input.command)
                               \cup BashCreates(input.command)
                   ELSE {}) :
       r \in ExecaResults}

(***************************************************************************)
(* Agent loop helpers.                                                     *)
(***************************************************************************)
ToolResult(id, content, isError) ==
    [tool_use_id |-> id, content |-> content, is_error |-> isError]

\* the ToolResult the loop builds from the string executeTool resolved to
ResultOfString(toolCall, result) ==
    ToolResult(toolCall.id, result,
               StartsWith(result, CuoWu) \/ StartsWith(result, ErrorEn))

\* the ToolResult the loop builds when executeTool threw or rejected
ResultOfThrow(toolCall, errorMsg) ==
    ToolResult(toolCall.id, <<"gongju-zhixing", "shibai:", errorMsg>>, TRUE)

\* the body of one tool promise of agentLoop, for a loop whose onToolCall
\* option is absent ("none"), returns or raises: the events in the order in
\* which they happen, the string the dispatcher resolved to and the
\* ToolResult the promise resolves to
toolPromise(onToolCall, toolCall, input, agentType) ==
    IF onToolCall = "raises"
    THEN {[events |-> <<"onToolCall">>, result |-> <<>>,
           toolResult |-> ResultOfThrow(toolCall, "callback failed")]}
    ELSE {[events |-> (IF onToolCall = "none" THEN <<>> ELSE <<"onToolCall">>)
                      \o <<"executeTool">>,
           result |-> r,
           toolResult |-> ResultOfString(toolCall, r)] :
             r \in executeTool(toolCall.name, input, agentType)}

\* a mis-assembly of the batch: the values in settlement order
PromiseAllBySettlement(settled) ==
    [j \in 1..Len(settled) |-> settled[j].value]

\* Promise.all: the value of the i-th promise at position i, whatever the
\* order in which the promises settled
PromiseAll(settled) ==
    [i \in 1..Len(settled) |->
        (CHOOSE e \in {settled[j] : j \in 1..Len(settled)} : e.index = i).value]

Settled(frame, i) == \E j \in 1..Len(frame.settled) : frame.settled[j].index = i

\* a stop test that looks at the tool calls only
ShouldStopIgnoringReason(toolCalls, stopReason) == Len(toolCalls) = 0

\* step 7 of agentLoop: whether the loop ends with this response
ShouldStop(toolCalls, stopReason) ==
    \/ Len(toolCalls) = 0
    \/ (stopReason # "tool_use" /\ stopReason # "tool_calls")

\* the while condition of agentLoop, evaluated on entry and after each batch
LoopTop(turns, maxTurns) ==
    IF turns < maxTurns THEN "AwaitingModel" ELSE "MaxTurnsReached"

\* a loop that works on the array it was given instead of a copy
CallerArrayAliased(given, currentHistory) == currentHistory

\* let currentHistory = [...history]: what the caller's array holds after the
\* loop pushed onto its copy
CallerArray(given, currentHistory) == given

\* a batch whose calls run one after the other: only the first has started
StartedFirstOnly(toolCalls) == {i \in 1..Len(toolCalls) : i = 1}

\* toolCalls.map(async ...): the calls whose promise body has run up to its
\* first await when map returns
Started(toolCalls) == 1..Len(toolCalls)

\* the warning after the while loop
MaxTurnsWarning(turns, maxTurns, silent) == turns >= maxTurns /\ ~silent

\* the state of one agentLoop invocation
NewLoop(history, maxTurns, silent, agentType, atCall) ==
    [currentHistory |-> history, origLen |-> Len(history), turns |-> 0,
     maxTurns |-> maxTurns, totalToolCount |-> 0, silent |-> silent,
     agentType |-> agentType, pc |-> LoopTop(0, maxTurns),
     nativeStop |-> "", toolCalls |-> <<>>, stopReason |-> "",
     started |-> {}, settled |-> <<>>, atCall |-> atCall]

(***************************************************************************)
(* Subagent runner.                                                        *)
(***************************************************************************)
\* a runTask whose catch block lets the failure escape
runTaskRethrow(errorMsg) == Throw(errorMsg)

\* the catch block of runTask
runTaskCatch(errorMsg) == Ret(CuoWu \o <<"zidaili-zhixing-shibai", errorMsg>>)

RECURSIVE LastAssistant(_)
\* index of the last assistant message of a history, 0 if there is none
LastAssistant(h) ==
    IF h = <<>> THEN 0
    ELSE IF h[Len(h)].role = "assistant" THEN Len(h)
    ELSE LastAssistant(SubSeq(h, 1, Len(h) - 1))

\* steps 6 of runTask: the summary built from the child's history
runTaskResult(resultHistory, agentType) ==
    IF LastAssistant(resultHistory) = 0
    THEN Ret(<<"zidaili-renwu-wancheng", "wu-shuchu">>)
    ELSE LET texts == Texts(resultHistory[LastAssistant(resultHistory)])
             RECURSIVE Join(_)
             Join(bs) == IF bs = <<>> THEN <<>>
                         ELSE Head(bs).text \o Join(Tail(bs))
         IN Ret(<<"zidaili-renwu-jieguo", agentType>> \o Join(texts)
                \o <<"zidaili-zhixing-wancheng">>)

(***************************************************************************)
(* REPL helpers.                                                           *)
(***************************************************************************)
\* a handler that leaves the history as it is
RollBackNothing(h) == h

\* the catch block of the REPL: drop the last message if it is a user message
RollBack(h) ==
    IF Len(h) > 0 /\ h[Len(h)].role = "user"
    THEN SubSeq(h, 1, Len(h) - 1)
    ELSE h

\* the content of the user message main() builds: the reminders joined into
\* one text block, then the input (a plain string content is one text block)
UserContent(reminders, userInput) ==
    (IF reminders = <<>> THEN <<>> ELSE <<TextBlock(reminders)>>)
    \o <<TextBlock(userInput)>>

(***************************************************************************)
(* Inputs: what the model may answer and what the user may type.           *)
(***************************************************************************)
Call(name, input) == [name |-> name, input |-> input]
Shape(text, calls, kind) == [text |-> text, calls |-> calls, kind |-> kind]

\* answers of the model to the top-level loop
MainShapes ==
    {Shape(<<"answer">>, <<>>, "end"),
     Shape(<<>>, <<Call("read_file", "in.txt")>>, "tool"),
     Shape(<<>>, <<Call("read_file", "in.txt")>>, "limit"),
     Shape(<<>>, <<Call("bash", "touch f"), Call("Glob", "src")>>, "tool"),
     Shape(<<>>, <<Call("Skill", "undefined"), Call("nope", "x")>>, "tool"),
     Shape(<<>>, <<Call("Task", "code"), Call("read_file", "../out")>>, "tool"),
     Shape(<<>>, <<Call("Task", "explore")>>, "tool"),
     Shape(<<>>, <<Call("Task", "plan")>>, "tool")}

\* answers of the model to a subagent loop
SubagentShapes ==
    {Shape(<<"summary">>, <<>>, "end"),
     Shape(<<>>, <<Call("TodoWrite", "one")>>, "tool"),
     Shape(<<>>, <<Call("write_file", "in.txt")>>, "tool"),
     Shape(<<>>, <<Call("Task", "explore")>>, "tool")}

HasTask(shape) == \E i \in 1..Len(shape.calls) : shape.calls[i].name = "Task"

\* the todos argument of a TodoWrite call
TodoPayload(input) ==
    IF input = "one"
    THEN <<TodoItem("", "write tests", "in_progress", "writing tests")>>
    ELSE <<TodoItem("", "a", "in_progress", "a"),
           TodoItem("", "b", "in_progress", "b")>>

(***************************************************************************)
(* State.                                                                  *)
(***************************************************************************)
VARIABLES
    adapterKind,        \* the provider the adapter was created for
    requireOk,          \* whether the require() calls of runTask resolve
    taskContext,        \* whether createExecuteTool got adapter, prompt, tools
    modelCalls,         \* responses the provider has given so far
    history,            \* the conversation history of the REPL
    userTurns,          \* user messages accepted so far
    loops,              \* the running agentLoop invocations, outermost first
    todos,              \* TodoManager.todos
    roundsWithoutTodo,  \* ReminderManager.roundsWithoutTodo
    isFirstMessage,     \* ReminderManager.isFirstMessage
    nextId,             \* ids handed out so far (provider ids, fabricated ids)
    executed,           \* tools run on behalf of subagents
    historyBefore,      \* the REPL history before the pending user message
    lastOutcome,        \* how the last user turn ended, after how many tools
    lastTask,           \* the last runTask that returned
    failedTasks,        \* ids of the Task calls whose child loop raised
    call,               \* a single call of a function or tool, and its outcome
    planMode,           \* PlanModeManager.state and the plan file on disk
    lastReturn          \* how the last agentLoop that returned left its loop

vars == <<adapterKind, requireOk, taskContext, modelCalls, history, userTurns,
          loops, todos, roundsWithoutTodo, isFirstMessage, nextId, executed,
          historyBefore, lastOutcome, lastTask, failedTasks, call, planMode,
          lastReturn>>

config == <<adapterKind, requireOk, taskContext>>

Snapshot == [todos |-> todos, roundsWithoutTodo |-> roundsWithoutTodo,
             isFirstMessage |-> isFirstMessage]

Outcome(kind, toolCount) == [kind |-> kind, toolCount |-> toolCount]

TaskReturn(returned, before, after) ==
    [returned |-> returned, before |-> before, after |-> after]

\* no call of the single-call specifications is under way
NoCall == [fn |-> "none"]

\* what an agentLoop invocation leaves behind when it returns
LoopReturn(pc, silent, warned) ==
    [pc |-> pc, silent |-> silent, warned |-> warned]

NoReturn == LoopReturn("none", FALSE, FALSE)

\* the session before the first user message
Fresh ==
    /\ modelCalls = 0
    /\ history = <<>>
    /\ userTurns = 0
    /\ loops = <<>>
    /\ todos = <<>>
    /\ roundsWithoutTodo = 0
    /\ isFirstMessage = TRUE
    /\ nextId = 0
    /\ executed = {}
    /\ historyBefore = <<>>
    /\ lastOutcome = Outcome("none", 0)
    /\ lastTask = TaskReturn(FALSE, Snapshot, Snapshot)
    /\ failedTasks = {}
    /\ lastReturn = NoReturn

Init ==
    /\ adapterKind \in Providers
    /\ requireOk \in BOOLEAN
    /\ taskContext \in BOOLEAN
    /\ ~taskContext => requireOk
    /\ Fresh
    /\ call = NoCall
    /\ planMode = NoPlanMode

(***************************************************************************)
(* Starting a batch: the synchronous part of every tool promise, in call   *)
(* order.                                                                  *)
(***************************************************************************)
RECURSIVE TodosAfter(_, _)
\* the todo list after the TodoWrite calls among calls ran, in order
TodosAfter(calls, todos0) ==
    IF calls = <<>> THEN todos0
    ELSE TodosAfter(Tail(calls),
                    IF Head(calls).name = "TodoWrite"
                    THEN TodoUpdate(todos0, TodoPayload(Head(calls).input)).todos
                    ELSE todos0)

\* whether the executor of a loop reaches the dispatcher at all: the executor
\* runTask gives the child loop begins with two require() calls
ReachesDispatcher(agentType) == agentType = "main" \/ requireOk

\* whether the dispatcher serving a loop has what the Task case asks for
HasTaskContext(agentType) == agentType # "main" \/ taskContext

\* whether the i-th call of the batch starts a subagent
Spawns(agentType, calls, i) ==
    /\ calls[i].name = "Task"
    /\ ReachesDispatcher(agentType)
    /\ HasTaskContext(agentType)

\* what is known of the i-th call's result once the batch has been started:
\* <<>> while a leaf tool or a subagent is still running
ReadyAtStart(agentType, calls, i, todos0) ==
    LET c == calls[i] IN
    IF ~ReachesDispatcher(agentType)
    THEN <<ResultOfThrow(c, "require is not defined")>>
    ELSE IF c.name = "TodoWrite"
    THEN <<ResultOfString(c,
             TodoUpdate(TodosAfter(SubSeq(calls, 1, i - 1), todos0),
                        TodoPayload(c.input)).result)>>
    ELSE IF c.name = "Task"
    THEN (IF HasTaskContext(agentType) THEN <<>>
          ELSE <<ResultOfString(c, TaskNeedsContext)>>)
    ELSE IF c.name \in LeafTools THEN <<>>
    ELSE <<ResultOfString(c, UnknownTool(c.name))>>

RECURSIVE SettledAtStart(_, _, _, _)
\* the promises of the batch that settle without waiting for the environment,
\* in call order, from the i-th call on
SettledAtStart(agentType, calls, i, todos0) ==
    IF i > Len(calls) THEN <<>>
    ELSE (IF ReadyAtStart(agentType, calls, i, todos0) = <<>> THEN <<>>
          ELSE <<[index |-> i,
                  value |-> ReadyAtStart(agentType, calls, i, todos0)[1]]>>)
         \o SettledAtStart(agentType, calls, i + 1, todos0)

\* the tools the dispatcher runs for a subagent in this batch
ExecutedBy(agentType, calls, depth) ==
    IF agentType = "main" \/ ~ReachesDispatcher(agentType) THEN {}
    ELSE {[agentType |-> agentType, name |-> calls[i].name, depth |-> depth] :
            i \in {j \in 1..Len(calls) :
                     calls[j].name \in LeafTools \cup {"TodoWrite", "Task"}}}

(***************************************************************************)
(* Actions.                                                                *)
(***************************************************************************)
\* main(): the user enters a message; the REPL appends it and calls agentLoop
UserTurn ==
    /\ loops = <<>>
    /\ userTurns < MaxUserTurns
    /\ userTurns' = userTurns + 1
    /\ isFirstMessage' = FALSE
    /\ history' = Append(history,
            Message("user",
                UserContent(getReminders(roundsWithoutTodo, isFirstMessage),
                            <<"input">>)))
    /\ historyBefore' = history
    /\ lastOutcome' = Outcome("pending", 0)
    /\ loops' = <<NewLoop(history', MaxTurns, FALSE, "main",
                          [Snapshot EXCEPT !.isFirstMessage = FALSE])>>
    /\ UNCHANGED <<config, call, planMode, lastReturn, modelCalls, todos,
                   roundsWithoutTodo, nextId, executed, lastTask, failedTasks>>

\* agentLoop: the adapter returns a response; the loop decodes it, appends
\* the assistant message and either stops or starts every tool of the batch
ModelResponds(shape) ==
    /\ loops # <<>>
    /\ LET k == Len(loops)
           f == loops[k]
           n == Len(shape.calls)
           response ==
               [text |-> shape.text,
                calls |-> [i \in 1..n |->
                    ToolCall(IF adapterKind = "gemini" THEN ""
                             ELSE "toolu_" \o ToString(nextId + i),
                             shape.calls[i].name, shape.calls[i].input)],
                stop |-> NativeStop(adapterKind, shape.kind)]
           ex == extractTextAndToolCalls(adapterKind, response, nextId)
           msg == formatAssistantMessage(adapterKind, response, nextId + n)
           tc == ex.toolCalls
           names == [i \in 1..n |-> tc[i].name]
           f1 == [f EXCEPT !.turns = f.turns + 1,
                           !.currentHistory = Append(f.currentHistory, msg),
                           !.nativeStop = response.stop,
                           !.toolCalls = tc,
                           !.stopReason = ex.stopReason,
                           !.started = {},
                           !.settled = <<>>]
       IN
       /\ f.pc = "AwaitingModel"
       /\ modelCalls < MaxModelCalls
       /\ modelCalls' = modelCalls + 1
       /\ shape \in (IF k = 1 THEN MainShapes ELSE SubagentShapes)
       /\ HasTask(shape) => k < MaxDepth
       /\ history' = IF k = 1 THEN CallerArray(history, f1.currentHistory)
                      ELSE history
       /\ nextId' = nextId + (IF adapterKind = "gemini"
                               THEN FabricatedIds(adapterKind, response)
                               ELSE n)
       /\ IF ShouldStop(tc, ex.stopReason)
          THEN /\ loops' = [loops EXCEPT ![k] = [f1 EXCEPT !.pc = "Done"]]
               /\ UNCHANGED <<todos, roundsWithoutTodo, executed>>
          ELSE /\ roundsWithoutTodo' = recordToolCalls(roundsWithoutTodo, names)
               /\ todos' = IF ReachesDispatcher(f.agentType)
                           THEN TodosAfter(tc, todos) ELSE todos
               /\ executed' = executed \cup ExecutedBy(f.agentType, tc, k)
               /\ LET f2 == [f1 EXCEPT
                               !.pc = "ExecutingTools",
                               !.started = Started(tc),
                               !.settled =
                                   SettledAtStart(f.agentType, tc, 1, todos)]
                      children ==
                          {i \in 1..n : Spawns(f.agentType, tc, i)}
                  IN loops' =
                       [loops EXCEPT ![k] = f2]
                       \o (IF children = {} THEN <<>>
                           ELSE <<NewLoop(
                                    <<Message("user", <<TextBlock(<<"prompt">>)>>)>>,
                                    SubagentMaxTurns, TRUE,
                                    tc[CHOOSE i \in children : TRUE].input,
                                    [todos |-> todos',
                                     roundsWithoutTodo |-> roundsWithoutTodo',
                                     isFirstMessage |-> isFirstMessage])>>)
       /\ UNCHANGED <<config, call, planMode, lastReturn, userTurns,
                      isFirstMessage, historyBefore, lastOutcome, lastTask,
                      failedTasks>>

\* a leaf tool finishes and its promise settles
ToolSettles(k, i) ==
    /\ k \in 1..Len(loops)
    /\ LET f == loops[k] IN
       /\ f.pc = "ExecutingTools"
       /\ i \in 1..Len(f.toolCalls)
       /\ i \in f.started
       /\ ~Settled(f, i)
       /\ f.toolCalls[i].name # "Task"
       /\ \E r \in executeTool(f.toolCalls[i].name, InputOf(f.toolCalls[i]),
                                f.agentType) :
            LET value == ResultOfString(f.toolCalls[i], r) IN
            loops' = [loops EXCEPT ![k].settled =
                         Append(@, [index |-> i, value |-> value])]
    /\ UNCHANGED <<config, call, planMode, lastReturn, modelCalls, history,
                   userTurns, todos, roundsWithoutTodo, isFirstMessage, nextId,
                   executed, historyBefore, lastOutcome, lastTask, failedTasks>>

\* agentLoop: Promise.all resolves; the results message is appended and the
\* while condition is evaluated again
BatchResolves(k) ==
    /\ k \in 1..Len(loops)
    /\ LET f == loops[k] IN
       /\ f.pc = "ExecutingTools"
       /\ Len(f.settled) = Len(f.toolCalls)
       /\ loops' = [loops EXCEPT ![k] =
            [f EXCEPT !.currentHistory =
                          Append(@, formatToolResults(PromiseAll(f.settled))),
                      !.totalToolCount = @ + Len(f.toolCalls),
                      !.pc = LoopTop(f.turns, f.maxTurns)]]
    /\ history' = IF k = 1
                   THEN CallerArray(history, loops'[k].currentHistory)
                   ELSE history
    /\ UNCHANGED <<config, call, planMode, lastReturn, modelCalls, userTurns,
                   todos, roundsWithoutTodo, isFirstMessage, nextId, executed,
                   historyBefore, lastOutcome, lastTask, failedTasks>>

\* the Task call of the loop below the innermost one settles with the string
\* runTask returned through the dispatcher
SettleTask(outcome) ==
    LET k == Len(loops)
        p == loops[k - 1]
        i == CHOOSE j \in 1..Len(p.toolCalls) :
                 p.toolCalls[j].name = "Task" /\ ~Settled(p, j)
    IN SubSeq(loops, 1, k - 2)
       \o <<[p EXCEPT !.settled =
                Append(@, [index |-> i,
                           value |-> ResultOfString(p.toolCalls[i],
                                                    DispatcherCatch(outcome))])]>>

PendingTaskId ==
    LET p == loops[Len(loops) - 1]
    IN p.toolCalls[CHOOSE j \in 1..Len(p.toolCalls) :
                      p.toolCalls[j].name = "Task" /\ ~Settled(p, j)].id

\* agentLoop returns its history: to main(), which replaces the REPL history,
\* or to runTask, which returns the summary to the parent's Task call
LoopReturns ==
    /\ loops # <<>>
    /\ LET k == Len(loops)
           f == loops[k]
       IN
       /\ f.pc \in {"Done", "MaxTurnsReached"}
       /\ lastReturn' = LoopReturn(f.pc, f.silent,
                            MaxTurnsWarning(f.turns, f.maxTurns, f.silent))
       /\ IF k = 1
          THEN /\ history' = f.currentHistory
               /\ loops' = <<>>
               /\ lastOutcome' = Outcome("returned", f.totalToolCount)
               /\ UNCHANGED lastTask
          ELSE /\ loops' = SettleTask(runTaskResult(f.currentHistory, f.agentType))
               /\ lastTask' = TaskReturn(TRUE, f.atCall, Snapshot)
               /\ UNCHANGED <<history, lastOutcome>>
    /\ UNCHANGED <<config, call, planMode, modelCalls, userTurns, todos, roundsWithoutTodo, isFirstMessage,
                   nextId, executed, historyBefore, failedTasks>>

\* adapter.createMessage rejects: agentLoop rethrows; main() reports the error
\* and rolls the REPL history back, runTask turns it into an error string
AdapterFails ==
    /\ loops # <<>>
    /\ LET k == Len(loops)
           f == loops[k]
       IN
       /\ f.pc = "AwaitingModel"
       /\ IF k = 1
          THEN /\ history' = RollBack(history)
               /\ loops' = <<>>
               /\ lastOutcome' = Outcome("failed", f.totalToolCount)
               /\ UNCHANGED <<lastTask, failedTasks>>
          ELSE /\ loops' = SettleTask(runTaskCatch("API error"))
               /\ lastTask' = TaskReturn(TRUE, f.atCall, Snapshot)
               /\ failedTasks' = failedTasks \cup {PendingTaskId}
               /\ UNCHANGED <<history, lastOutcome>>
    /\ UNCHANGED <<config, call, planMode, lastReturn, modelCalls, userTurns,
                   todos, roundsWithoutTodo, isFirstMessage, nextId, executed,
                   historyBefore>>

Next ==
    \/ UserTurn
    \/ \E shape \in MainShapes \cup SubagentShapes : ModelResponds(shape)
    \/ \E k \in 1..MaxDepth : \E i \in 1..2 : ToolSettles(k, i)
    \/ \E k \in 1..MaxDepth : BatchResolves(k)
    \/ LoopReturns
    \/ AdapterFails

Spec == Init /\ [][Next]_vars

(***************************************************************************)
(* Single calls: one function or one tool dispatch applied to one input.   *)
(***************************************************************************)
PathSegs == {<<"a">>, <<".", ".">>, <<".">>, <<"w">>, <<"w", "2">>}

RECURSIVE SegSeqs(_)
\* the sequences of at most n path segments
SegSeqs(n) ==
    IF n = 0 THEN {<<>>}
    ELSE SegSeqs(n - 1)
         \cup {Append(segs, x) : segs \in SegSeqs(n - 1), x \in PathSegs}

\* relative and absolute path arguments
PathInputs ==
    {JoinWith(segs, "/") : segs \in SegSeqs(MaxSegs)}
    \cup {<<"/">> \o JoinWith(segs, "/") : segs \in SegSeqs(MaxSegs)}

\* the commands the security tests and the specification name as destructive
DestructiveCommands ==
    {<<"r", "m", " ", "-", "r", "f", " ", "/">>,
     <<"r", "m", " ", "-", "r", "f", " ", "/", "e", "t", "c">>,
     <<"s", "u", "d", "o", " ", "r", "e", "b", "o", "o", "t">>,
     <<"s", "u", "d", "o", " ", "a", "p", "t", "-", "g", "e", "t">>,
     <<"s", "h", "u", "t", "d", "o", "w", "n", " ", "n", "o", "w">>,
     <<":", "(", ")", "{", " ", ":", "|", ":", "&", " ", "}", ";", ":">>,
     <<":", "(", ")", "{", ":", "|", ":", "&", "}", ";", ":">>}

\* further commands that match an entry of DANGEROUS_PATTERNS
PatternCommands ==
    {<<"r", "m", " ", " ", "-", "r", "f", " ", "~">>,
     <<"r", "m", " ", "-", "r", "f", " ", "*">>,
     <<"d", "d", " ", "i", "f", "=", "/", "d", "e", "v", "/", "z", "e", "r", "o">>,
     <<"m", "k", "f", "s", ".", "e", "x", "t", "4", " ", "/", "d", "e", "v", "/", "s", "d", "a">>,
     <<"c", "h", "m", "o", "d", " ", "-", "R", " ", "7", "7", "7", " ", "/">>,
     <<"c", "u", "r", "l", " ", "x", " ", "|", " ", "s", "h">>,
     <<"w", "g", "e", "t", " ", "x", " ", "|", "b", "a", "s", "h">>,
     <<"e", "c", "h", "o", " ", ">", " ", "/", "d", "e", "v", "/", "s", "d", "a">>}

\* the commands the security tests name as safe
SafeCommands ==
    {<<"l", "s", " ", "-", "l", "a">>,
     <<"g", "i", "t", " ", "s", "t", "a", "t", "u", "s">>,
     <<"n", "p", "m", " ", "i", "n", "s", "t", "a", "l", "l">>}

OtherCommands ==
    {<<"l", "s">>,
     <<"c", "a", "t", " ", "a">>,
     <<"t", "o", "u", "c", "h", " ", "f">>,
     <<"g", "i", "t", " ", "l", "o", "g">>,
     <<"g", "i", "t", " ", "l", "o", "g", "x">>,
     <<"g", "i", "t", " ", "p", "u", "s", "h">>,
     <<" ", "l", "s", " ">>,
     <<"l", "s", ";", "r", "m", " ", "a">>,
     <<"l", "s", " ", "&", "&", " ", "r", "m", " ", "a">>,
     <<"f", "i", "n", "d", " ", ".", " ", "-", "d", "e", "l", "e", "t", "e">>}

\* String.prototype.toUpperCase
ToUpperCase(s) ==
    [i \in 1..Len(s) |->
        IF \E j \in 1..Len(LowerCase) : LowerCase[j] = s[i]
        THEN UpperCase[CHOOSE j \in 1..Len(LowerCase) : LowerCase[j] = s[i]]
        ELSE s[i]]

\* String.prototype.toLowerCase
ToLowerCase(s) == [i \in 1..Len(s) |-> ToLower(s[i])]

CommandInputs ==
    LET C == DestructiveCommands \cup PatternCommands \cup SafeCommands
             \cup OtherCommands
    IN C \cup {ToUpperCase(c) : c \in C}

RECURSIVE OutputsOfLen(_)
OutputsOfLen(n) ==
    IF n = 0 THEN {<<>>}
    ELSE {Append(o, c) : o \in OutputsOfLen(n - 1), c \in {"a", "b"}}

OutputInputs == UNION {OutputsOfLen(n) : n \in 0..MaxOutputLen}

\* the callers of the dispatcher: the REPL's and the three subagent types'
Callers == {"main", "explore", "code", "plan"}

FsTools == {"read_file", "write_file", "edit_file", "Glob", "Grep"}

\* the onToolCall option of a loop: absent, a callback that returns, a
\* callback that raises
OnToolCalls == {"none", "returns", "raises"}

Pending(fn, args) == [fn |-> fn, args |-> args, done |-> FALSE, out |-> <<>>]

loopVars == <<modelCalls, history, userTurns, loops, todos, roundsWithoutTodo,
              isFirstMessage, nextId, executed, historyBefore, lastOutcome,
              lastTask, failedTasks, planMode, lastReturn>>

InitCall ==
    /\ adapterKind = "anthropic"
    /\ requireOk = TRUE
    /\ taskContext = TRUE
    /\ Fresh
    /\ planMode = NoPlanMode
    /\ \/ call \in {Pending("safePath", [workdir |-> WorkDir, filePath |-> p]) :
                      p \in PathInputs}
       \/ call \in {Pending("validateBashCommand", [command |-> c]) :
                      c \in CommandInputs}
       \/ call \in {Pending("truncateOutput", [output |-> o, maxLength |-> n]) :
                      o \in OutputInputs, n \in 0..MaxOutputLen}
       \/ call \in {Pending("bash", [command |-> c, agentType |-> a]) :
                      c \in CommandInputs, a \in Callers}
       \/ call \in {Pending("fs", [name |-> t, path |-> p]) :
                      t \in FsTools, p \in PathInputs}
       \/ call \in {Pending("toolPromise",
                             [onToolCall |-> cb, name |-> t, path |-> p]) :
                      cb \in OnToolCalls, t \in FsTools,
                      p \in {Chars("in.txt"), Chars("../out")}}

SafePathCall ==
    /\ call.fn = "safePath" /\ ~call.done
    /\ call' = [call EXCEPT !.done = TRUE,
                            !.out = safePath(call.args.workdir,
                                             call.args.filePath)]
    /\ UNCHANGED <<config, loopVars>>

ValidateBashCall ==
    /\ call.fn = "validateBashCommand" /\ ~call.done
    /\ call' = [call EXCEPT !.done = TRUE,
                            !.out = validateBashCommand(call.args.command)]
    /\ UNCHANGED <<config, loopVars>>

TruncateCall ==
    /\ call.fn = "truncateOutput" /\ ~call.done
    /\ call' = [call EXCEPT
                  !.done = TRUE,
                  !.out = [once |-> truncateOutput(call.args.output,
                                                   call.args.maxLength),
                           twice |-> truncateOutput(
                                        truncateOutput(call.args.output,
                                                       call.args.maxLength),
                                        call.args.maxLength)]]
    /\ UNCHANGED <<config, loopVars>>

\* the dispatcher runs a bash call; the loop builds its ToolResult
BashCall ==
    /\ call.fn = "bash" /\ ~call.done
    /\ \E r \in ExecaResults :
         LET readOnly == BashReadOnly(call.args.agentType)
             result == DispatcherCatch(
                           runBashWith(call.args.command, readOnly, r))
         IN call' = [call EXCEPT
                       !.done = TRUE,
                       !.out = [spawned |-> ReachesExeca(call.args.command,
                                                         readOnly),
                                exec |-> r,
                                toolResult |->
                                    ResultOfString(ToolCall("toolu_1", "bash",
                                                            call.args.command),
                                                   result)]]
    /\ UNCHANGED <<config, loopVars>>

\* the dispatcher runs a filesystem tool; the loop builds its ToolResult
FsToolCall ==
    /\ call.fn = "fs" /\ ~call.done
    /\ \E result \in executeTool(call.args.name, [path |-> call.args.path],
                                 "main") :
         call' = [call EXCEPT
                    !.done = TRUE,
                    !.out = [accessed |-> FsAccess(call.args.name,
                                                   call.args.path),
                             toolResult |->
                                 ResultOfString(ToolCall("toolu_1",
                                                         call.args.name,
                                                         call.args.path),
                                                result)]]
    /\ UNCHANGED <<config, loopVars>>

\* agentLoop runs the promise of one tool call of a batch
ToolPromiseCall ==
    /\ call.fn = "toolPromise" /\ ~call.done
    /\ \E o \in toolPromise(call.args.onToolCall,
                             ToolCall("toolu_1", call.args.name, call.args.path),
                             [path |-> call.args.path], "main") :
         call' = [call EXCEPT !.done = TRUE, !.out = o]
    /\ UNCHANGED <<config, loopVars>>

NextCall ==
    \/ SafePathCall
    \/ ValidateBashCall
    \/ TruncateCall
    \/ BashCall
    \/ FsToolCall
    \/ ToolPromiseCall

CallSpec == InitCall /\ [][NextCall]_vars

(***************************************************************************)
(* The Todo manager on its own: any sequence of update and clear calls.    *)
(***************************************************************************)
TodoItemInputs ==
    {TodoItem("", "a", "pending", "a"),
     TodoItem("", "b", "in_progress", "b"),
     TodoItem("todo-2", "c", "completed", "c"),
     TodoItem("", "e", "done", "e"),
     TodoItem("", " ", "pending", "f"),
     TodoItem("", "g", "pending", "")}

RECURSIVE TodoLists(_)
\* the lists of at most n items
TodoLists(n) ==
    IF n = 0 THEN {<<>>}
    ELSE TodoLists(n - 1)
         \cup {Append(l, x) : l \in TodoLists(n - 1), x \in TodoItemInputs}

\* a list of n valid pending items
ManyItems(n) == [i \in 1..n |-> TodoItem("", "a", "pending", "a")]

TodoInputs ==
    TodoLists(MaxItems)
    \cup {ManyItems(MAX_TODO_ITEMS), ManyItems(MAX_TODO_ITEMS + 1)}

nonTodoVars == <<modelCalls, history, userTurns, loops, roundsWithoutTodo,
                 isFirstMessage, nextId, executed, historyBefore, lastOutcome,
                 lastTask, failedTasks, planMode, lastReturn>>

InitTodo ==
    /\ adapterKind = "anthropic"
    /\ requireOk = TRUE
    /\ taskContext = TRUE
    /\ Fresh
    /\ call = NoCall
    /\ planMode = NoPlanMode

\* getTodoManager().update(items)
UpdateCall(items) ==
    /\ todos' = TodoUpdate(todos, items).todos
    /\ call' = [fn |-> "update", args |-> items, done |-> TRUE,
                out |-> [result |-> TodoUpdate(todos, items).result,
                         before |-> todos]]
    /\ UNCHANGED <<config, nonTodoVars>>

\* getTodoManager().clear()
ClearCall ==
    /\ todos' = <<>>
    /\ call' = [fn |-> "clear", args |-> <<>>, done |-> TRUE,
                out |-> [result |-> <<>>, before |-> todos]]
    /\ UNCHANGED <<config, nonTodoVars>>

NextTodo ==
    \/ \E items \in TodoInputs : UpdateCall(items)
    \/ ClearCall

TodoSpec == InitTodo /\ [][NextTodo]_vars

(***************************************************************************)
(* The Reminder manager on its own: any sequence of its calls.             *)
(***************************************************************************)
\* the tool names of one round
RoundNames == {<<"bash">>, <<"TodoWrite">>, <<"read_file", "TodoWrite">>,
               <<"read_file", "Glob">>}

\* the call just made on the manager: log holds, for every recordToolCalls
\* since construction or the last reset, whether its names included TodoWrite
ReminderCall(log, last, out, before) ==
    [fn |-> "reminder", log |-> log, last |-> last, out |-> out,
     before |-> before]

Counters == [roundsWithoutTodo |-> roundsWithoutTodo,
             isFirstMessage |-> isFirstMessage]

nonReminderVars == <<modelCalls, history, userTurns, loops, todos, nextId,
                     executed, historyBefore, lastOutcome, lastTask,
                     failedTasks, planMode, lastReturn>>

InitReminder ==
    /\ adapterKind = "anthropic"
    /\ requireOk = TRUE
    /\ taskContext = TRUE
    /\ Fresh
    /\ planMode = NoPlanMode
    /\ call = ReminderCall(<<>>, "new", <<>>, [roundsWithoutTodo |-> 0,
                                               isFirstMessage |-> TRUE])

\* getReminderManager().recordToolCalls(toolNames)
RecordToolCallsCall(toolNames) ==
    /\ call.fn = "reminder"
    /\ Len(call.log) < MaxRecorded
    /\ roundsWithoutTodo' = recordToolCalls(roundsWithoutTodo, toolNames)
    /\ call' = ReminderCall(
                  Append(call.log,
                         \E i \in 1..Len(toolNames) : toolNames[i] = "TodoWrite"),
                  "recordToolCalls", <<>>, Counters)
    /\ UNCHANGED <<config, nonReminderVars, isFirstMessage>>

\* getReminderManager().getReminders()
GetRemindersCall ==
    /\ call.fn = "reminder"
    /\ call' = ReminderCall(call.log, "getReminders",
                            getReminders(roundsWithoutTodo, isFirstMessage),
                            Counters)
    /\ UNCHANGED <<config, nonReminderVars, roundsWithoutTodo, isFirstMessage>>

\* getReminderManager().markFirstMessageSent()
MarkFirstMessageSentCall ==
    /\ call.fn = "reminder"
    /\ isFirstMessage' = FALSE
    /\ call' = ReminderCall(call.log, "markFirstMessageSent", <<>>, Counters)
    /\ UNCHANGED <<config, nonReminderVars, roundsWithoutTodo>>

\* getReminderManager().reset()
ResetCall ==
    /\ call.fn = "reminder"
    /\ roundsWithoutTodo' = 0
    /\ isFirstMessage' = TRUE
    /\ call' = ReminderCall(<<>>, "reset", <<>>, Counters)
    /\ UNCHANGED <<config, nonReminderVars>>

NextReminder ==
    \/ \E toolNames \in RoundNames : RecordToolCallsCall(toolNames)
    \/ GetRemindersCall
    \/ MarkFirstMessageSentCall
    \/ ResetCall

ReminderSpec == InitReminder /\ [][NextReminder]_vars

(***************************************************************************)
(* One dispatcher of the main agent serving a sequence of tool calls.      *)
(***************************************************************************)
\* the call just dispatched: n calls so far, log the successful plan-mode
\* calls in order, out what the call did and the manager before it
DispatchCall(name, input, n, log, out) ==
    [fn |-> "dispatch", name |-> name, input |-> input, n |-> n, log |-> log,
     out |-> out]

\* whether a string returned by the dispatcher reports a failure
Failed(result) ==
    \/ StartsWith(result, CuoWu)
    \/ StartsWith(result, <<"gongju-zhixing", "cuowu:">>)

\* the record of a dispatch that went from planMode to o
Served(name, input, o, entry) ==
    DispatchCall(name, input, call.n + 1,
                 IF entry # "" /\ ~Failed(o.result)
                 THEN Append(call.log, entry) ELSE call.log,
                 [result |-> o.result, modified |-> o.modified,
                  before |-> planMode, logBefore |-> call.log])

nonPlanVars == <<modelCalls, history, userTurns, loops, todos,
                 roundsWithoutTodo, isFirstMessage, nextId, executed,
                 historyBefore, lastOutcome, lastTask, failedTasks,
                 lastReturn>>

\* the plan file may be left on disk by an earlier session
InitPlan ==
    /\ adapterKind = "anthropic"
    /\ requireOk = TRUE
    /\ taskContext = TRUE
    /\ Fresh
    /\ planMode \in {PlanModeState(FALSE, f) : f \in BOOLEAN}
    /\ call = DispatchCall("none", <<>>, 0, <<>>,
                           [result |-> <<>>, modified |-> {},
                            before |-> planMode, logBefore |-> <<>>])

DispatchEnterPlanMode ==
    /\ call.fn = "dispatch" /\ call.n < MaxDispatches
    /\ \E o \in dispatchEnterPlanMode(planMode) :
         /\ planMode' = o.planMode
         /\ call' = Served("EnterPlanMode", <<>>, o, "enter")
    /\ UNCHANGED <<config, nonPlanVars>>

DispatchExitPlanMode ==
    /\ call.fn = "dispatch" /\ call.n < MaxDispatches
    /\ \E o \in dispatchExitPlanMode(planMode) :
         /\ planMode' = o.planMode
         /\ call' = Served("ExitPlanMode", <<>>, o, "exit")
    /\ UNCHANGED <<config, nonPlanVars>>

DispatchFileTool(toolName, path) ==
    /\ call.fn = "dispatch" /\ call.n < MaxDispatches
    /\ \E o \in dispatchFileTool(toolName, [path |-> path], "main", planMode) :
         /\ planMode' = o.planMode
         /\ call' = Served(toolName, path, o, "")
    /\ UNCHANGED <<config, nonPlanVars>>

DispatchBash(command) ==
    /\ call.fn = "dispatch" /\ call.n < MaxDispatches
    /\ \E o \in dispatchBash([command |-> command], "main", planMode) :
         /\ planMode' = o.planMode
         /\ call' = Served("bash", command, o, "")
    /\ UNCHANGED <<config, nonPlanVars>>

NextPlan ==
    \/ DispatchEnterPlanMode
    \/ DispatchExitPlanMode
    \/ \E toolName \in {"read_file", "write_file", "edit_file"} :
         \E path \in {PlanFileName, Chars("in.txt")} :
            DispatchFileTool(toolName, path)
    \/ \E command \in {Chars("touch f"), Chars("ls"),
                       <<"r", "m", " ">> \o PlanFileName} :
         DispatchBash(command)

PlanSpec == InitPlan /\ [][NextPlan]_vars

(***************************************************************************)
(* Properties.                                                             *)
(***************************************************************************)
\* every history that exists: the REPL's and each running loop's
AllHistories == {history} \cup {loops[k].currentHistory : k \in 1..Len(loops)}

\* every ToolResult block of every history
AllResultBlocks ==
    UNION {UNION {{ToolResults(h[i])[j] : j \in 1..Len(ToolResults(h[i]))} :
                    i \in 1..Len(h)} : h \in AllHistories}

\* every ToolUse of assistant message i of h is answered by exactly one
\* ToolResult with its id in message i + 1, a user message
Answered(h, i) ==
    ToolUses(h[i]) # <<>> =>
        /\ i < Len(h)
        /\ h[i + 1].role = "user"
        /\ \A u \in 1..Len(ToolUses(h[i])) :
              Cardinality({j \in 1..Len(ToolResults(h[i + 1])) :
                  ToolResults(h[i + 1])[j].tool_use_id = ToolUses(h[i])[u].id})
              = 1

Paired(h) == \A i \in 1..Len(h) : h[i].role = "assistant" => Answered(h, i)

\* C1: every history handed to a model call (a loop in AwaitingModel has
\* handed its currentHistory to createMessage) has each ToolUse answered by
\* exactly one ToolResult with the same id in the next user message
C1_PairingInvariant ==
    \A k \in 1..Len(loops) :
        loops[k].pc = "AwaitingModel" => Paired(loops[k].currentHistory)

\* C2: a tool-results user message has exactly one ToolResult per ToolUse of
\* the assistant message before it, in call order and with the same ids,
\* whatever the order in which the tools settled
C2_BatchResultsInCallOrder ==
    \A h \in AllHistories : \A i \in 1..Len(h) :
        ToolResults(h[i]) # <<>> =>
            /\ i > 1
            /\ h[i - 1].role = "assistant"
            /\ Len(ToolResults(h[i])) = Len(ToolUses(h[i - 1]))
            /\ \A j \in 1..Len(ToolResults(h[i])) :
                  ToolResults(h[i])[j].tool_use_id = ToolUses(h[i - 1])[j].id

\* a batch of two whose second tool settled first has been appended
C2_Witness ==
    \E k \in 1..Len(loops) :
        /\ loops[k].pc \in {"AwaitingModel", "MaxTurnsReached"}
        /\ Len(loops[k].settled) = 2
        /\ loops[k].settled[1].index = 2
        /\ Len(ToolResults(loops[k].currentHistory[
                               Len(loops[k].currentHistory)])) = 2

\* the condition of the transition rule, on the response a loop decoded last
StopsRequesting(f) ==
    Len(f.toolCalls) = 0 \/ f.stopReason \notin {"tool_use", "tool_calls"}

\* C3: once a loop has decoded a response it is in Done exactly when that
\* response had no tool call or a stop reason other than tool-requested; in
\* Done the assistant message is last, no tool of that response was started,
\* and a loop that is Done after its first response made one model call and
\* has a history of length original + 1
C3_DoneExactlyWhenNotRequesting ==
    \A k \in 1..Len(loops) :
        LET f == loops[k] IN
        /\ f.turns > 0 => (f.pc = "Done" <=> StopsRequesting(f))
        /\ f.pc = "Done" =>
              /\ f.currentHistory[Len(f.currentHistory)].role = "assistant"
              /\ f.settled = <<>>
              /\ k = Len(loops)
              /\ Len(f.currentHistory) = f.origLen + 2 * f.turns - 1
              /\ f.turns = 1 => Len(f.currentHistory) = f.origLen + 1

\* a loop ended in Done on a response that carried a tool call
C3_Witness ==
    \E k \in 1..Len(loops) :
        /\ loops[k].pc = "Done"
        /\ loops[k].turns = 1
        /\ loops[k].toolCalls # <<>>

\* every response the loop has decoded requested at least one tool call
AlwaysRequests(f) ==
    \A i \in (f.origLen + 1)..Len(f.currentHistory) :
        f.currentHistory[i].role = "assistant" =>
            ToolUses(f.currentHistory[i]) # <<>>

\* the provider cut the last response short (output token limit)
Truncated(f) == f.nativeStop \in {"max_tokens", "length", "MAX_TOKENS"}

\* C4: a loop whose every response requested a tool call (none of them cut
\* short by the provider) returns only after exactly maxTurns model calls,
\* with a history of length original + 2 * maxTurns that ends with the
\* tool-results user message
C4_StopsAtBudget ==
    \A k \in 1..Len(loops) :
        LET f == loops[k] IN
        (/\ f.pc \in {"Done", "MaxTurnsReached"}
         /\ AlwaysRequests(f)
         /\ ~Truncated(f)) =>
            /\ f.turns = f.maxTurns
            /\ Len(f.currentHistory) = f.origLen + 2 * f.maxTurns
            /\ f.currentHistory[Len(f.currentHistory)].role = "user"

\* C5: when runTask has returned, the Todo list and the Reminder counters are
\* what they were when it was called
C5_SubagentIsolation ==
    lastTask.returned => lastTask.after = lastTask.before

IsDispatcherError(content) ==
    \/ StartsWith(content, CuoWu \o <<"weizhi-gongju">>)
    \/ content = TaskNeedsContext
    \/ StartsWith(content, <<"gongju-zhixing", "cuowu:">>)

\* C7: every error outcome of the dispatcher (unknown tool, caught exception
\* of an executor, missing Task context) is recorded with is_error = TRUE
C7_DispatcherErrorsFlagged ==
    \A r \in AllResultBlocks : IsDispatcherError(r.content) => r.is_error

\* the results of failed tool executions: missing file, failed write, non-zero
\* exit code, Glob failure, failed web fetch
IsToolFailure(content) ==
    \/ StartsWith(content, CuoWu \o <<"wenjian-bu-cunzai">>)
    \/ StartsWith(content, CuoWu \o <<"EACCES">>)
    \/ \E i \in 1..Len(content) : content[i] = "mingling-zhixing-shibai"
    \/ StartsWith(content, <<"Glob", "cuowu:">>)
    \/ StartsWith(content, CuoWu \o <<"wangluo-qingqiu-shibai">>)

\* C8: every failed tool execution is recorded with is_error = TRUE
C8_ToolFailuresFlagged ==
    \A r \in AllResultBlocks : IsToolFailure(r.content) => r.is_error

\* C9: after an adapter failure of a user turn the REPL history is the history
\* from before the pending user message
C9_RollBackRestores ==
    lastOutcome.kind = "failed" => history = historyBefore

\* a later user turn failed after its loop had executed tools
C9_Witness ==
    /\ lastOutcome.kind = "failed"
    /\ lastOutcome.toolCount > 0
    /\ historyBefore # <<>>

\* every ToolResult the loops hold: settled values and history blocks
AllResults ==
    AllResultBlocks
    \cup UNION {{ToolResultBlock(loops[k].settled[j].value.tool_use_id,
                                 loops[k].settled[j].value.content,
                                 loops[k].settled[j].value.is_error) :
                    j \in 1..Len(loops[k].settled)} : k \in 1..Len(loops)}

\* C10: the Task call of a child loop that raised is answered by the error
\* string of runTask, flagged as an error, and the parent loop goes on: it is
\* still running, and after the batch it is at the top of its loop again
C10_SubagentFailureContained ==
    /\ \A r \in AllResults :
          r.tool_use_id \in failedTasks =>
              /\ r.content = CuoWu \o <<"zidaili-zhixing-shibai", "API error">>
              /\ r.is_error
    /\ \A k \in 1..Len(loops) :
          LET f == loops[k]
              last == f.currentHistory[Len(f.currentHistory)]
          IN (\E j \in 1..Len(ToolResults(last)) :
                 ToolResults(last)[j].tool_use_id \in failedTasks)
             => f.pc = LoopTop(f.turns, f.maxTurns)

\* the parent of a failed subagent waits for its next model response
C10_Witness ==
    /\ Len(loops) = 1
    /\ loops[1].pc = "AwaitingModel"
    /\ LET last == loops[1].currentHistory[Len(loops[1].currentHistory)]
       IN \E j \in 1..Len(ToolResults(last)) :
             /\ ToolResults(last)[j].tool_use_id \in failedTasks
             /\ ToolResults(last)[j].is_error

\* the segments of an absolute path
Segments(p) == normalizeArray(Split(p, "/"), <<>>)

\* the absolute path abs is the directory root or lies below it
Inside(root, abs) ==
    /\ Len(Segments(root)) <= Len(Segments(abs))
    /\ SubSeq(Segments(abs), 1, Len(Segments(root))) = Segments(root)

\* C11: safePath(root, p) fails with the path-escape error whenever p resolved
\* against root lies outside the directory root, and otherwise returns the
\* resolved path, which lies under root
C11_SafePathConfines ==
    (call.fn = "safePath" /\ call.done) =>
        LET root == call.args.workdir
            abs == resolve(root, call.args.filePath)
        IN IF Inside(root, abs)
           THEN call.out.kind = "ret" /\ call.out.str = abs
           ELSE call.out.kind = "throw"

\* C12: a call of read_file, write_file, edit_file, Glob or Grep whose path
\* argument resolves outside the work directory hands no path outside the
\* work directory to the file system and yields an error result
C12_GateBeforeFilesystem ==
    (call.fn = "fs" /\ call.done
     /\ ~Inside(WorkDir, resolve(WorkDir, call.args.path))) =>
        /\ \A abs \in call.out.accessed : Inside(WorkDir, abs)
        /\ call.out.toolResult.is_error

\* C17: truncating an output that was already truncated with the same bound
\* changes nothing
C17_TruncateIdempotent ==
    (call.fn = "truncateOutput" /\ call.done) =>
        call.out.twice = call.out.once

\* a command the specification and the security tests call destructive, in
\* any letter case
Destructive(command) ==
    \/ ToLowerCase(command) \in DestructiveCommands
    \/ FirstWord(ToLowerCase(command)) = <<"s", "u", "d", "o">>

\* C18: validateBashCommand rejects the destructive commands in any letter
\* case and accepts the common safe commands
C18_DangerCheck ==
    (call.fn = "validateBashCommand" /\ call.done) =>
        /\ Destructive(call.args.command) => ~call.out
        /\ call.args.command \in SafeCommands => call.out

RECURSIVE Words(_)
\* the whitespace-separated words of a command
Words(s) ==
    IF TrimChars(s) = <<>> THEN <<>>
    ELSE <<FirstWord(s)>>
         \o Words(SubSeq(TrimChars(s), Len(FirstWord(s)) + 1,
                         Len(TrimChars(s))))

\* the leading word of the command is a one-word entry of the read-only
\* allow-list, or the command begins with a multi-word entry
AllowListed(command) ==
    \/ /\ Words(command) # <<>>
       /\ Words(command)[1] \in {e \in READ_ONLY_COMMANDS : Len(Words(e)) = 1}
    \/ \E e \in {x \in READ_ONLY_COMMANDS : Len(Words(x)) > 1} :
           StartsWith(TrimChars(command), e)

\* C19: for an explore caller a bash call starts the subprocess only if the
\* command passes the danger check and is on the read-only allow-list, and
\* otherwise yields an error result; for every other caller the subprocess
\* starts whenever the danger check passes
C19_ExploreBashReadOnly ==
    (call.fn = "bash" /\ call.done) =>
        IF call.args.agentType = "explore"
        THEN /\ call.out.spawned <=>
                   (validateBashCommand(call.args.command)
                    /\ AllowListed(call.args.command))
             /\ ~call.out.spawned =>
                   /\ call.out.toolResult.is_error
                   /\ StartsWith(call.out.toolResult.content, CuoWu)
        ELSE call.out.spawned <=> validateBashCommand(call.args.command)

\* an explore caller was refused a command that passes the danger check
C19_Witness ==
    /\ call.fn = "bash" /\ call.done
    /\ call.args.agentType = "explore"
    /\ validateBashCommand(call.args.command)
    /\ ~call.out.spawned
    /\ call.out.toolResult.is_error

\* the stop reasons the loop treats as a request for tools
ToolRequested == {"tool_use", "tool_calls"}

\* C13: whatever the adapter, a decoded response with tool calls (not cut
\* short by the provider) has a tool-requested stop reason and the loop goes
\* on to execute its calls; a response without tool calls has a stop reason
\* that is not tool-requested
C13_StopReasonClassifies ==
    \A k \in 1..Len(loops) :
        LET f == loops[k] IN
        (f.turns > 0 /\ ~Truncated(f)) =>
            IF f.toolCalls # <<>>
            THEN f.stopReason \in ToolRequested /\ f.pc # "Done"
            ELSE f.stopReason \notin ToolRequested

\* the assistant message of the response a loop decoded last
LastDecoded(f) == f.currentHistory[f.origLen + 2 * f.turns - 1]

\* C14: each tool call of a decoded response has the same id in the ToolCall
\* list and in the ToolUse block of the assistant message, and no id is used
\* twice in a history
C14_OneIdPerCall ==
    \A k \in 1..Len(loops) :
        LET f == loops[k] IN
        f.turns > 0 =>
            /\ Len(ToolUses(LastDecoded(f))) = Len(f.toolCalls)
            /\ \A i \in 1..Len(f.toolCalls) :
                  ToolUses(LastDecoded(f))[i].id = f.toolCalls[i].id
            /\ \A m, n \in 1..Len(f.currentHistory) :
                  \A i \in 1..Len(ToolUses(f.currentHistory[m])) :
                  \A j \in 1..Len(ToolUses(f.currentHistory[n])) :
                      (m # n \/ i # j) =>
                          ToolUses(f.currentHistory[m])[i].id
                          # ToolUses(f.currentHistory[n])[j].id

\* the result of a command the timeout ended: its exit code is undefined
IsTimedOut(content) ==
    \E i \in 1..(Len(content) - 1) :
        content[i] = "tuichuma:" /\ content[i + 1] = "undefined"

\* C20: the ToolResult of a shell execution ended by the timeout is recorded
\* with is_error = TRUE
C20_TimeoutIsFailure ==
    \A r \in AllResultBlocks : IsTimedOut(r.content) => r.is_error

\* the positions of a list whose item is in progress
InProgress(items) == {i \in 1..Len(items) : items[i].status = "in_progress"}

\* C15: the stored list never has more than one in_progress item nor more
\* than MAX_TODO_ITEMS items, and an update with more than one in_progress
\* item or more than MAX_TODO_ITEMS items is rejected
C15_TodoInvariant ==
    /\ Cardinality(InProgress(todos)) <= 1
    /\ Len(todos) <= MAX_TODO_ITEMS
    /\ (call.fn = "update"
        /\ (Cardinality(InProgress(call.args)) > 1
            \/ Len(call.args) > MAX_TODO_ITEMS)) =>
          /\ StartsWith(call.out.result, CuoWu)
          /\ todos = call.out.before

\* a list with two in_progress items was offered to a non-empty list
C15_Witness ==
    /\ call.fn = "update"
    /\ Cardinality(InProgress(call.args)) > 1
    /\ Len(call.args) <= MAX_TODO_ITEMS
    /\ \A i \in 1..Len(call.args) : call.args[i].content \notin {"", " "}
    /\ call.out.before # <<>>
    /\ Cardinality(InProgress(call.out.before)) = 1

\* the reasons for which update rejects a list
Rejectable(items) ==
    \/ Len(items) > MAX_TODO_ITEMS
    \/ Cardinality(InProgress(items)) > 1
    \/ \E i \in 1..Len(items) :
          \/ items[i].status \notin {"pending", "in_progress", "completed"}
          \/ items[i].content \in {"", " "}
          \/ items[i].activeForm \in {"", " "}
    \/ \E i, j \in 1..Len(items) :
          i # j /\ items[i].id # "" /\ items[i].id = items[j].id

\* C16: a rejected update returns an error string and leaves the stored list
\* as it was; an accepted update stores exactly the given items, in order,
\* and nothing of the previous list
C16_UpdateAtomic ==
    call.fn = "update" =>
        IF Rejectable(call.args)
        THEN /\ StartsWith(call.out.result, CuoWu)
             /\ todos = call.out.before
        ELSE /\ ~StartsWith(call.out.result, CuoWu)
             /\ Len(todos) = Len(call.args)
             /\ \A i \in 1..Len(todos) :
                   /\ todos[i].content = call.args[i].content
                   /\ todos[i].status = call.args[i].status
                   /\ todos[i].activeForm = call.args[i].activeForm

\* a shorter list was accepted over a non-empty stored list
C16_Witness ==
    /\ call.fn = "update"
    /\ ~Rejectable(call.args)
    /\ call.args # <<>>
    /\ Len(call.out.before) > Len(call.args)
    /\ todos # call.out.before

\* the message runTask makes of the prompt, the whole history it hands over
PromptMessage == Message("user", <<TextBlock(<<"prompt">>)>>)

\* a history that holds the prompt and then only what the loop itself
\* appended: per turn an assistant message and a tool-results message
OwnTurnsOnly(f) ==
    /\ f.origLen = 1
    /\ f.currentHistory[1] = PromptMessage
    /\ Len(f.currentHistory) \in {2 * f.turns, 2 * f.turns + 1}
    /\ \A i \in 2..Len(f.currentHistory) :
          IF i % 2 = 0
          THEN f.currentHistory[i].role = "assistant"
          ELSE /\ f.currentHistory[i].role = "user"
               /\ Texts(f.currentHistory[i]) = <<>>

\* a step leaves the array of every caller whose loop is running as it was:
\* the REPL's history and the history of every loop that waits for a child
CallersUntouched ==
    /\ (loops # <<>> /\ loops' # <<>>) => history' = history
    /\ \A j \in 1..(Len(loops) - 1) :
          j <= Len(loops') =>
              loops'[j].currentHistory = loops[j].currentHistory

\* C21: the history of a subagent loop starts as the task prompt alone and
\* then holds only the child's own turns, and no step changes the REPL's
\* history while a loop runs nor the history of a loop whose child runs
C21_SubagentHistoryFresh ==
    /\ [](\A k \in 2..Len(loops) : OwnTurnsOnly(loops[k]))
    /\ [][CallersUntouched]_vars

\* a child has taken a turn of its own while its parent holds a conversation
C21_Witness ==
    /\ Len(loops) >= 2
    /\ Len(loops[2].currentHistory) >= 2
    /\ Len(loops[1].currentHistory) >= 2
    /\ history # <<>>

\* some call of some running batch has not produced its result yet
BatchInFlight ==
    \E k \in 1..Len(loops) :
        /\ loops[k].pc = "ExecutingTools"
        /\ \E i \in 1..Len(loops[k].toolCalls) : ~Settled(loops[k], i)

\* C23: while a call of a batch is in flight no step changes the Todo list
\* or the Reminder counter
C23_SingletonsQuietDuringBatch ==
    [][BatchInFlight =>
          (todos' = todos /\ roundsWithoutTodo' = roundsWithoutTodo)]_vars

\* the batch of loop k is complete and its results message is the last
\* message of the loop's history
BatchAnswered(k) ==
    /\ Len(loops[k].settled) = Len(loops[k].toolCalls)
    /\ LET h == loops'[k].currentHistory
       IN Len(ToolResults(h[Len(h)])) = Len(loops[k].toolCalls)

\* the conditions under which the promise of call i of a batch settles: the
\* call was started, has no result yet and its tool has an outcome; the
\* results of the other calls are not among them
CanSettle(f, i) ==
    /\ i \in f.started
    /\ ~Settled(f, i)
    /\ executeTool(f.toolCalls[i].name, InputOf(f.toolCalls[i]),
                   f.agentType) # {}

\* C24: while a loop executes a batch every call of it has been started, a
\* leaf call that has not settled can settle whatever the other calls do, a
\* Task call that has not settled has its child loop running, and the loop
\* leaves the batch only with a result of every call appended
C24_BatchStartedTogether ==
    /\ [](\A k \in 1..Len(loops) :
            loops[k].pc = "ExecutingTools" =>
               /\ loops[k].started = 1..Len(loops[k].toolCalls)
               /\ \A i \in 1..Len(loops[k].toolCalls) :
                     ~Settled(loops[k], i) =>
                        IF loops[k].toolCalls[i].name = "Task"
                        THEN k < Len(loops)
                        ELSE CanSettle(loops[k], i))
    /\ [][\A k \in 1..Len(loops) :
            (loops[k].pc = "ExecutingTools" /\ k <= Len(loops')
             /\ loops'[k].pc # "ExecutingTools") => BatchAnswered(k)]_vars

\* the second call of a batch has its result while the first, a shell
\* command or a subagent, is still running
C24_Witness ==
    \E k \in 1..Len(loops) :
        /\ loops[k].pc = "ExecutingTools"
        /\ Len(loops[k].toolCalls) = 2
        /\ loops[k].toolCalls[1].name \in {"bash", "Task"}
        /\ Settled(loops[k], 2)
        /\ ~Settled(loops[k], 1)

\* C29: a loop that is not silent warns of the turn limit exactly when it
\* left the while loop with the budget exhausted after a batch, never when it
\* left it because the model stopped requesting tools
C29_WarningOnlyOnExhaustion ==
    (lastReturn.pc # "none" /\ ~lastReturn.silent) =>
        (lastReturn.warned <=> lastReturn.pc = "MaxTurnsReached")

RECURSIVE RoundsSinceTodo(_)
\* the number of recorded rounds after the last one that included TodoWrite
RoundsSinceTodo(log) ==
    IF log = <<>> \/ log[Len(log)] THEN 0
    ELSE 1 + RoundsSinceTodo(SubSeq(log, 1, Len(log) - 1))

\* C22: roundsWithoutTodo is the number of recordToolCalls calls since the
\* last one whose names included TodoWrite (or since construction or reset),
\* getReminders returns the nag reminder exactly when that number has reached
\* the threshold, and getReminders leaves the counters as they were
C22_RoundsWithoutTodo ==
    call.fn = "reminder" =>
        /\ roundsWithoutTodo = RoundsSinceTodo(call.log)
        /\ call.last = "getReminders" =>
              /\ (\E i \in 1..Len(call.out) : call.out[i] = "nag")
                    <=> RoundsSinceTodo(call.log) >= todoNagThreshold
              /\ Counters = call.before

\* the nag reminder was returned after a TodoWrite round had reset the count
C22_Witness ==
    /\ call.fn = "reminder"
    /\ call.last = "getReminders"
    /\ \E i \in 1..Len(call.out) : call.out[i] = "nag"
    /\ \E i \in 1..Len(call.log) : call.log[i]

\* C30: after an accepted update every stored item has a non-empty id and no
\* two stored items have the same id
C30_StoredIdsDistinct ==
    (call.fn = "update" /\ ~StartsWith(call.out.result, CuoWu)) =>
        /\ \A i \in 1..Len(todos) : todos[i].id # ""
        /\ \A i, j \in 1..Len(todos) : i # j => todos[i].id # todos[j].id

\* the positions of an event in a sequence of events
EventAt(events, e) == {i \in 1..Len(events) : events[i] = e}

\* C25: whatever the onToolCall option of the loop is, the tool of a call is
\* dispatched exactly once, a supplied callback is notified before the
\* dispatch, and the recorded ToolResult is made of the string the dispatcher
\* resolved to
C25_CallbackAdvisory ==
    (call.fn = "toolPromise" /\ call.done) =>
        /\ Cardinality(EventAt(call.out.events, "executeTool")) = 1
        /\ call.args.onToolCall # "none" =>
              \E i \in EventAt(call.out.events, "onToolCall") :
                 \A j \in EventAt(call.out.events, "executeTool") : i < j
        /\ call.out.toolResult =
              ResultOfString(ToolCall("toolu_1", call.args.name,
                                      call.args.path),
                             call.out.result)

\* C26: a dispatch of a tool other than TodoWrite leaves the in-process
\* state that later dispatches read as it was, and returns what the same
\* call returns on the same file system when nothing was dispatched before
C26_DispatcherStateless ==
    (call.fn = "dispatch" /\ call.name \in {"EnterPlanMode", "ExitPlanMode"}) =>
        /\ planMode.isActive = call.out.before.isActive
        /\ call.out.result \in
              {o.result :
                 o \in (IF call.name = "EnterPlanMode"
                        THEN dispatchEnterPlanMode(
                                 PlanModeState(FALSE, call.out.before.planFile))
                        ELSE dispatchExitPlanMode(
                                 PlanModeState(FALSE, call.out.before.planFile)))}

\* whether plan mode is on by the successful plan-mode calls made so far
InPlanMode(log) == log # <<>> /\ log[Len(log)] = "enter"

\* C27: a call dispatched after a successful EnterPlanMode and before the
\* next successful ExitPlanMode changes no file other than the plan file
C27_PlanModeReadOnly ==
    (call.fn = "dispatch" /\ InPlanMode(call.out.logBefore)
     /\ call.name \in {"write_file", "edit_file", "bash"}) =>
        call.out.modified \subseteq {PlanFilePath}

\* C28: EnterPlanMode succeeds only from inactive and leaves plan mode
\* active, ExitPlanMode succeeds only from active with the plan file on disk
\* and leaves it inactive, a failed enter or exit leaves the state as it
\* was, and successful enters and exits alternate, starting with an enter
C28_PlanModeTwoStates ==
    call.fn = "dispatch" =>
        /\ call.name = "EnterPlanMode" =>
              IF Failed(call.out.result)
              THEN planMode.isActive = call.out.before.isActive
              ELSE ~call.out.before.isActive /\ planMode.isActive
        /\ call.name = "ExitPlanMode" =>
              IF Failed(call.out.result)
              THEN planMode.isActive = call.out.before.isActive
              ELSE /\ call.out.before.isActive
                   /\ call.out.before.planFile
                   /\ ~planMode.isActive
        /\ \A i \in 1..Len(call.log) :
              call.log[i] = (IF i % 2 = 1 THEN "enter" ELSE "exit")

====
